---- MODULE Spec2Model ----
(***************************************************************************)
(* Model of internal/crypto/crypto.go: the SIWS signed-message verifier    *)
(* (VerifySIWS) and the nonce anti-replay store (VerifyAndConsumeNonce).   *)
(*                                                                         *)
(* Strings that the code inspects character by character (domains, URIs)   *)
(* are tuples of one-character strings; byte slices are tuples of small    *)
(* numbers; a time.Time is a natural number, 0 being the zero time         *)
(* (IsZero), and time.Now() is the variable now, which is never 0.         *)
(***************************************************************************)
EXTENDS Integers, Sequences, FiniteSets, TLC

\* ------------------------------------------------------------------ bounds
NumCallers == 2
MaxTime == 2
MaxVerifyTime == 3
MaxFaults == 2
MaxRotations == 1

\* ------------------------------------------------------- program constants
PubKeySize == 32
MinNonceLen == 8

\* --------------------------------------------------------- small helpers
RECURSIVE SeqRange(_, _)
SeqRange(s, i) == IF i > Len(s) THEN {} ELSE {s[i]} \cup SeqRange(s, i + 1)

Chars(s) == SeqRange(s, 1)

\* index of the first element of s equal to c at or after position i, else 0
RECURSIVE IndexFrom(_, _, _)
IndexFrom(s, c, i) ==
    IF i > Len(s) THEN 0 ELSE IF s[i] = c THEN i ELSE IndexFrom(s, c, i + 1)

Drop(s, n) == SubSeq(s, n + 1, Len(s))

Take(s, n) == SubSeq(s, 1, n)

HasPrefix(s, p) == Len(s) >= Len(p) /\ Take(s, Len(p)) = p

\* -------------------------------------------------------------- alphabet
Ctl == "<ctl>"
Space == " "
Letters == {"a", "c", "h", "A", "z"}
HexDigits == {"4", "a", "c", "A"}
Digits == {"4"}

\* ------------------------------------------------------ error vocabulary
ErrNone == "nil"
ErrEmptyRawMessage == "ErrEmptyRawMessage"
ErrEmptySignature == "ErrEmptySignature"
ErrNilMessage == "ErrNilMessage"
ErrMissingDomain == "ErrMissingDomain"
ErrInvalidDomainFormat == "ErrInvalidDomainFormat"
ErrDomainMismatch == "ErrDomainMismatch"
ErrInvalidPubKeySize == "ErrInvalidPubKeySize"
ErrInvalidVersion == "ErrInvalidVersion"
ErrInvalidChainID == "ErrInvalidChainID"
ErrNonceTooShort == "ErrNonceTooShort"
ErrInvalidURI == "ErrInvalidURI"
ErrInvalidResourceURI == "ErrInvalidResourceURI"
ErrSignatureVerification == "ErrSignatureVerification"
ErrFutureMessage == "ErrFutureMessage"
ErrMessageExpired == "ErrMessageExpired"
ErrNotYetValid == "ErrNotYetValid"

\* ------------------------------------------- collaborators of VerifySIWS

\* siws.IsValidDomain: non-empty, no whitespace or control character, and a
\* host form (it holds a letter and does not start with a dot).
IsValidDomain(domain) ==
    /\ Len(domain) > 0
    /\ Chars(domain) \cap {Space, Ctl} = {}
    /\ Chars(domain) \cap Letters # {}
    /\ domain[1] # "."

\* base58.Decode: the byte slice an address string decodes to; a string
\* holding a character outside the base58 alphabet decodes to no bytes.
KeyBytes(k, n) == [i \in 1..n |-> k]

Base58Decode(address) ==
    CASE address = "addrA" -> KeyBytes(1, PubKeySize)
      [] address = "addrB" -> KeyBytes(2, PubKeySize)
      [] address = "short" -> KeyBytes(1, PubKeySize - 1)
      [] address = "long" -> KeyBytes(1, PubKeySize + 1)
      [] OTHER -> <<>>

\* siws.IsBase58PubKey: the decoded key is exactly an Ed25519 public key.
IsBase58PubKey(pubKey) == Len(pubKey) = PubKeySize

\* siws.IsValidSolanaNetwork
SolanaNetworks == {"mainnet", "devnet", "testnet"}

IsValidSolanaNetwork(chainID) == chainID \in SolanaNetworks

\* url.Parse, for URLs without query, fragment, userinfo or port: the
\* scheme scan of getScheme, then the checks of parse.  TRUE iff err = nil.
RECURSIVE GetScheme(_, _)
GetScheme(rawURL, i) ==
    IF i > Len(rawURL) THEN [scheme |-> <<>>, rest |-> rawURL, ok |-> TRUE]
    ELSE IF rawURL[i] \in Letters THEN GetScheme(rawURL, i + 1)
    ELSE IF rawURL[i] \in Digits \cup {"+", "-", "."} THEN
        IF i = 1 THEN [scheme |-> <<>>, rest |-> rawURL, ok |-> TRUE]
        ELSE GetScheme(rawURL, i + 1)
    ELSE IF rawURL[i] = ":" THEN
        IF i = 1 THEN [scheme |-> <<>>, rest |-> rawURL, ok |-> FALSE]
        ELSE [scheme |-> Take(rawURL, i - 1), rest |-> Drop(rawURL, i), ok |-> TRUE]
    ELSE [scheme |-> <<>>, rest |-> rawURL, ok |-> TRUE]

\* unescape: every "%" is followed by two hex digits
RECURSIVE ValidEscapes(_, _)
ValidEscapes(s, i) ==
    IF i > Len(s) THEN TRUE
    ELSE IF s[i] = "%" THEN
        /\ i + 2 <= Len(s)
        /\ s[i + 1] \in HexDigits
        /\ s[i + 2] \in HexDigits
        /\ ValidEscapes(s, i + 3)
    ELSE ValidEscapes(s, i + 1)

FirstSegment(rest) ==
    LET k == IndexFrom(rest, "/", 1) IN IF k = 0 THEN rest ELSE Take(rest, k - 1)

UrlParseOK(rawURL) ==
    IF Ctl \in Chars(rawURL) THEN FALSE
    ELSE LET g == GetScheme(rawURL, 1) IN
        IF ~g.ok THEN FALSE
        ELSE IF ~HasPrefix(g.rest, <<"/">>) /\ g.scheme # <<>> THEN TRUE
        ELSE IF ~HasPrefix(g.rest, <<"/">>) /\ ":" \in Chars(FirstSegment(g.rest))
            THEN FALSE
        ELSE IF HasPrefix(g.rest, <<"/", "/">>) /\ ~HasPrefix(g.rest, <<"/", "/", "/">>)
            THEN LET auth == Drop(g.rest, 2)
                     k == IndexFrom(auth, "/", 1)
                     host == IF k = 0 THEN auth ELSE Take(auth, k - 1)
                     path == IF k = 0 THEN <<>> ELSE Drop(auth, k - 1)
                 IN  /\ Chars(host) \cap {Space, "%", ":"} = {}
                     /\ ValidEscapes(path, 1)
        ELSE ValidEscapes(g.rest, 1)

\* ed25519: the signature scheme, symbolically.  The signature of message m
\* under the private key of public key pub is a byte string determined by
\* (pub, m) and by nothing else; no other byte string verifies.  (The Go
\* function panics on a key that is not PubKeySize bytes long; here it
\* rejects it.)
Ed25519Sign(pub, m) == <<pub[1]>> \o m \o <<pub[1]>>

Ed25519Verify(pub, m, sig) == Len(pub) = PubKeySize /\ sig = Ed25519Sign(pub, m)

\* ------------------------------------------------------------- VerifySIWS
\* A *siws.SIWSMessage is a tuple: <<>> is the nil pointer, <<m>> points to m.
NilMsg == <<>>

SIWSResult(e, reached) == [err |-> e, sigChecked |-> reached]

\* the loop over msg.Resources: TRUE iff every entry parses
RECURSIVE ResourcesOK(_, _)
ResourcesOK(resources, i) ==
    IF i > Len(resources) THEN TRUE
    ELSE IF ~UrlParseOK(resources[i]) THEN FALSE
    ELSE ResourcesOK(resources, i + 1)

\* the time validations with the expiration bound exclusive
TimeValidation_ExclusiveExpiration(m, params, t) ==
    IF m.IssuedAt # 0 /\ t < m.IssuedAt THEN ErrFutureMessage
    ELSE IF /\ m.IssuedAt # 0
            /\ params.CheckTime /\ params.TimeDuration > 0
            /\ t > m.IssuedAt + params.TimeDuration THEN ErrMessageExpired
    ELSE IF m.NotBefore # 0 /\ t < m.NotBefore THEN ErrNotYetValid
    ELSE IF m.ExpirationTime # 0 /\ t >= m.ExpirationTime THEN ErrMessageExpired
    ELSE ErrNone

\* 9) time validations, with now read once
TimeValidation(m, params, t) ==
    IF m.IssuedAt # 0 /\ t < m.IssuedAt THEN ErrFutureMessage
    ELSE IF /\ m.IssuedAt # 0
            /\ params.CheckTime /\ params.TimeDuration > 0
            /\ t > m.IssuedAt + params.TimeDuration THEN ErrMessageExpired
    ELSE IF m.NotBefore # 0 /\ t < m.NotBefore THEN ErrNotYetValid
    ELSE IF m.ExpirationTime # 0 /\ t > m.ExpirationTime THEN ErrMessageExpired
    ELSE ErrNone

\* strings.EqualFold on the model's alphabet
Lower(ch) == IF ch = "A" THEN "a" ELSE ch

DomainMatches_FoldCase(domain, expected) ==
    [i \in 1..Len(domain) |-> Lower(domain[i])]
        = [i \in 1..Len(expected) |-> Lower(expected[i])]

\* msg.Domain != params.ExpectedDomain, negated
DomainMatches(domain, expected) == domain = expected

\* the signature check left out
SignatureOK_Skipped(pubKey, rawMessage, signature) == TRUE

\* ed25519.Verify(pubKey, []byte(rawMessage), signature)
SignatureOK(pubKey, rawMessage, signature) ==
    Ed25519Verify(pubKey, rawMessage, signature)

\* VerifySIWS with the chain ID validated before the version
VerifySIWS_ChainBeforeVersion(rawMessage, signature, msg, params, t) ==
    IF rawMessage = <<>> THEN SIWSResult(ErrEmptyRawMessage, FALSE)
    ELSE IF Len(signature) = 0 THEN SIWSResult(ErrEmptySignature, FALSE)
    ELSE IF msg = NilMsg THEN SIWSResult(ErrNilMessage, FALSE)
    ELSE LET m == msg[1]
             pubKey == Base58Decode(m.Address)
         IN
    IF params.ExpectedDomain = <<>> THEN SIWSResult(ErrMissingDomain, FALSE)
    ELSE IF ~IsValidDomain(m.Domain) THEN SIWSResult(ErrInvalidDomainFormat, FALSE)
    ELSE IF ~DomainMatches(m.Domain, params.ExpectedDomain)
        THEN SIWSResult(ErrDomainMismatch, FALSE)
    ELSE IF ~IsBase58PubKey(pubKey) THEN SIWSResult(ErrInvalidPubKeySize, FALSE)
    ELSE IF m.ChainID # "" /\ ~IsValidSolanaNetwork(m.ChainID)
        THEN SIWSResult(ErrInvalidChainID, FALSE)
    ELSE IF m.Version # "1" THEN SIWSResult(ErrInvalidVersion, FALSE)
    ELSE IF m.Nonce # "" /\ Len(m.Nonce) < MinNonceLen
        THEN SIWSResult(ErrNonceTooShort, FALSE)
    ELSE IF m.URI # <<>> /\ ~UrlParseOK(m.URI) THEN SIWSResult(ErrInvalidURI, FALSE)
    ELSE IF ~ResourcesOK(m.Resources, 1) THEN SIWSResult(ErrInvalidResourceURI, FALSE)
    ELSE IF ~SignatureOK(pubKey, rawMessage, signature)
        THEN SIWSResult(ErrSignatureVerification, TRUE)
    ELSE SIWSResult(TimeValidation(m, params, t), TRUE)

\* VerifySIWS with the public key's size validated after the signature
VerifySIWS_KeySizeAfterSignature(rawMessage, signature, msg, params, t) ==
    IF rawMessage = <<>> THEN SIWSResult(ErrEmptyRawMessage, FALSE)
    ELSE IF Len(signature) = 0 THEN SIWSResult(ErrEmptySignature, FALSE)
    ELSE IF msg = NilMsg THEN SIWSResult(ErrNilMessage, FALSE)
    ELSE LET m == msg[1]
             pubKey == Base58Decode(m.Address)
         IN
    IF params.ExpectedDomain = <<>> THEN SIWSResult(ErrMissingDomain, FALSE)
    ELSE IF ~IsValidDomain(m.Domain) THEN SIWSResult(ErrInvalidDomainFormat, FALSE)
    ELSE IF ~DomainMatches(m.Domain, params.ExpectedDomain)
        THEN SIWSResult(ErrDomainMismatch, FALSE)
    ELSE IF m.Version # "1" THEN SIWSResult(ErrInvalidVersion, FALSE)
    ELSE IF m.ChainID # "" /\ ~IsValidSolanaNetwork(m.ChainID)
        THEN SIWSResult(ErrInvalidChainID, FALSE)
    ELSE IF m.Nonce # "" /\ Len(m.Nonce) < MinNonceLen
        THEN SIWSResult(ErrNonceTooShort, FALSE)
    ELSE IF m.URI # <<>> /\ ~UrlParseOK(m.URI) THEN SIWSResult(ErrInvalidURI, FALSE)
    ELSE IF ~ResourcesOK(m.Resources, 1) THEN SIWSResult(ErrInvalidResourceURI, FALSE)
    ELSE IF ~SignatureOK(pubKey, rawMessage, signature)
        THEN SIWSResult(ErrSignatureVerification, TRUE)
    ELSE IF ~IsBase58PubKey(pubKey) THEN SIWSResult(ErrInvalidPubKeySize, TRUE)
    ELSE SIWSResult(TimeValidation(m, params, t), TRUE)

\* The result carries, beside the error, whether control reached the call of
\* ed25519.Verify.
VerifySIWS(rawMessage, signature, msg, params, t) ==
    IF rawMessage = <<>> THEN SIWSResult(ErrEmptyRawMessage, FALSE)
    ELSE IF Len(signature) = 0 THEN SIWSResult(ErrEmptySignature, FALSE)
    ELSE IF msg = NilMsg THEN SIWSResult(ErrNilMessage, FALSE)
    ELSE LET m == msg[1]
             pubKey == Base58Decode(m.Address)
         IN
    IF params.ExpectedDomain = <<>> THEN SIWSResult(ErrMissingDomain, FALSE)
    ELSE IF ~IsValidDomain(m.Domain) THEN SIWSResult(ErrInvalidDomainFormat, FALSE)
    ELSE IF ~DomainMatches(m.Domain, params.ExpectedDomain)
        THEN SIWSResult(ErrDomainMismatch, FALSE)
    ELSE IF ~IsBase58PubKey(pubKey) THEN SIWSResult(ErrInvalidPubKeySize, FALSE)
    ELSE IF m.Version # "1" THEN SIWSResult(ErrInvalidVersion, FALSE)
    ELSE IF m.ChainID # "" /\ ~IsValidSolanaNetwork(m.ChainID)
        THEN SIWSResult(ErrInvalidChainID, FALSE)
    ELSE IF m.Nonce # "" /\ Len(m.Nonce) < MinNonceLen
        THEN SIWSResult(ErrNonceTooShort, FALSE)
    ELSE IF m.URI # <<>> /\ ~UrlParseOK(m.URI) THEN SIWSResult(ErrInvalidURI, FALSE)
    ELSE IF ~ResourcesOK(m.Resources, 1) THEN SIWSResult(ErrInvalidResourceURI, FALSE)
    ELSE IF ~SignatureOK(pubKey, rawMessage, signature)
        THEN SIWSResult(ErrSignatureVerification, TRUE)
    ELSE SIWSResult(TimeValidation(m, params, t), TRUE)

\* ------------------------------------------------- EncryptedString: keys
NonceSize == 12
SymKeySize == 32

\* results of the envelope operations
ErrUnknownKey == "crypto: decryption key does not exist"
ErrKeyNot256 == "crypto: key is not 256 bits"
ErrBase64 == "base64.CorruptInputError"
ErrAuthFailed == "cipher: message authentication failed"
PanicNonceLength == "panic: crypto/cipher: incorrect nonce length given to GCM"

AlgAESGCMHKDF == "aes-gcm-hkdf"

\* base64.RawURLEncoding.DecodeString on the key material of the model: the
\* bytes, or <<>> with ok FALSE for text that is not base64url
Base64URLDecode(keyBase64URL) ==
    CASE keyBase64URL = "baseA" -> [ok |-> TRUE, bytes |-> KeyBytes(1, SymKeySize)]
      [] keyBase64URL = "baseB" -> [ok |-> TRUE, bytes |-> KeyBytes(2, SymKeySize)]
      [] keyBase64URL = "base128" -> [ok |-> TRUE, bytes |-> KeyBytes(3, SymKeySize \div 2)]
      [] keyBase64URL = "" -> [ok |-> TRUE, bytes |-> <<>>]
      [] OTHER -> [ok |-> FALSE, bytes |-> <<>>]

\* hkdf.New(sha256.New, hkdfKey, nil, []byte(id)) read for 32 bytes: a
\* one-way function of the key and the info, symbolically
HKDF(hkdfKey, info) == [ikm |-> hkdfKey, info |-> info]

\* the key derivation without the record id as HKDF info
DeriveSymmetricKey_IgnoresID(id, keyID, keyBase64URL) ==
    LET dec == Base64URLDecode(keyBase64URL) IN
    IF ~dec.ok THEN [err |-> ErrBase64, key |-> <<>>]
    ELSE IF Len(dec.bytes) # SymKeySize THEN [err |-> ErrKeyNot256, key |-> <<>>]
    ELSE [err |-> ErrNone, key |-> <<HKDF(dec.bytes, "")>>]

\* deriveSymmetricKey(id, keyID, keyBase64URL)
DeriveSymmetricKey(id, keyID, keyBase64URL) ==
    LET dec == Base64URLDecode(keyBase64URL) IN
    IF ~dec.ok THEN [err |-> ErrBase64, key |-> <<>>]
    ELSE IF Len(dec.bytes) # SymKeySize THEN [err |-> ErrKeyNot256, key |-> <<>>]
    ELSE [err |-> ErrNone, key |-> <<HKDF(dec.bytes, id)>>]

\* cipher.Seal(nil, nonce, plaintext, nil): ciphertext and tag, a box that
\* only the same key and nonce open
GCMSeal(key, nonce, plaintext) ==
    <<[key |-> key, nonce |-> nonce, plaintext |-> plaintext]>>

\* bytes that are no output of Seal under any key
Garbage == <<[key |-> HKDF(<<>>, ""), nonce |-> <<>>, plaintext |-> <<>>]>>

\* cipher.Open(nil, nonce, data, nil)
GCMOpen(key, nonce, data) ==
    IF Len(nonce) # NonceSize THEN [err |-> PanicNonceLength, out |-> <<>>]
    ELSE IF Len(data) = 1 /\ data[1].key = key /\ data[1].nonce = nonce
        THEN [err |-> ErrNone, out |-> <<data[1].plaintext>>]
    ELSE [err |-> ErrAuthFailed, out |-> <<>>]

\* decryptionKeys[keyID]: the zero value for a key the map does not hold
MapGet(m, k) == IF k \in DOMAIN m THEN m[k] ELSE ""

\* ------------------------------------------------ EncryptedString: methods
IsValid(es) ==
    es.KeyID # "" /\ Len(es.Data) > 0 /\ Len(es.Nonce) > 0
        /\ es.Algorithm = AlgAESGCMHKDF

\* the comparison on the algorithm instead of the key id
ShouldReEncrypt_ComparesAlgorithm(es, encryptionKeyID) ==
    es.Algorithm # encryptionKeyID

ShouldReEncrypt(es, encryptionKeyID) == es.KeyID # encryptionKeyID

DecryptResult(out, e, der, opn) ==
    [out |-> out, err |-> e, derived |-> der, opened |-> opn]

\* Decrypt with the material of the first key of the map, whatever the
\* envelope's key id
Decrypt_FirstKey(es, id, decryptionKeys) ==
    LET decryptionKey == MapGet(decryptionKeys, "k1") IN
    IF decryptionKey = "" THEN DecryptResult(<<>>, ErrUnknownKey, FALSE, FALSE)
    ELSE LET dk == DeriveSymmetricKey(id, es.KeyID, decryptionKey) IN
         IF dk.err # ErrNone THEN DecryptResult(<<>>, dk.err, TRUE, FALSE)
         ELSE LET opn == GCMOpen(dk.key[1], es.Nonce, es.Data) IN
              DecryptResult(opn.out, opn.err, TRUE, TRUE)

\* Decrypt that derives a key from whatever the map returns
Decrypt_NoKeyCheck(es, id, decryptionKeys) ==
    LET decryptionKey == MapGet(decryptionKeys, es.KeyID)
        dk == DeriveSymmetricKey(id, es.KeyID, decryptionKey)
    IN  IF dk.err # ErrNone THEN DecryptResult(<<>>, dk.err, TRUE, FALSE)
        ELSE LET opn == GCMOpen(dk.key[1], es.Nonce, es.Data) IN
             DecryptResult(opn.out, opn.err, TRUE, TRUE)

\* (es *EncryptedString) Decrypt(id, decryptionKeys): the plaintext in a
\* one-element tuple, or <<>> for nil, and whether the key derivation and
\* the AEAD open were attempted
Decrypt(es, id, decryptionKeys) ==
    LET decryptionKey == MapGet(decryptionKeys, es.KeyID) IN
    IF decryptionKey = "" THEN DecryptResult(<<>>, ErrUnknownKey, FALSE, FALSE)
    ELSE LET dk == DeriveSymmetricKey(id, es.KeyID, decryptionKey) IN
         IF dk.err # ErrNone THEN DecryptResult(<<>>, dk.err, TRUE, FALSE)
         ELSE LET opn == GCMOpen(dk.key[1], es.Nonce, es.Data) IN
              DecryptResult(opn.out, opn.err, TRUE, TRUE)

\* NewEncryptedString sealing before the nonce is read, under the zero nonce
\* that make([]byte, 12) leaves
NewEncryptedString_SealsBeforeNonce(id, data, keyID, keyBase64URL, rnd) ==
    LET dk == DeriveSymmetricKey(id, keyID, keyBase64URL) IN
    IF dk.err # ErrNone THEN [es |-> <<>>, err |-> dk.err]
    ELSE [es |-> <<[KeyID |-> keyID, Algorithm |-> AlgAESGCMHKDF,
                    Nonce |-> rnd,
                    Data |-> GCMSeal(dk.key[1], KeyBytes(0, NonceSize), data)]>>,
          err |-> ErrNone]

\* NewEncryptedString(id, data, keyID, keyBase64URL); rnd is what
\* io.ReadFull(rand.Reader, es.Nonce) reads.  The envelope in a one-element
\* tuple, or <<>> for nil
NewEncryptedString(id, data, keyID, keyBase64URL, rnd) ==
    LET dk == DeriveSymmetricKey(id, keyID, keyBase64URL) IN
    IF dk.err # ErrNone THEN [es |-> <<>>, err |-> dk.err]
    ELSE [es |-> <<[KeyID |-> keyID, Algorithm |-> AlgAESGCMHKDF,
                    Nonce |-> rnd,
                    Data |-> GCMSeal(dk.key[1], rnd, data)]>>,
          err |-> ErrNone]

\* --------------------------------------- EncryptedString: transport string
\* The transport string is a tuple of tokens: the braces, white space, any
\* other text, and the members of the JSON object, each with its name, the
\* kind of its value and the value (the text of a string, or the bytes that
\* a base64 string encodes).
Tok(t) == [tok |-> t, name |-> "", kind |-> "", text |-> "", bytes |-> <<>>]

Member(name, kind, text, bytes) ==
    [tok |-> "member", name |-> name, kind |-> kind, text |-> text, bytes |-> bytes]

\* a key id that is not valid UTF-8, and the same with U+FFFD for the byte
KeyIDInvalidUTF8 == "k[ff]"
KeyIDReplaced == "k[fffd]"

\* encoding/json writes strings coerced to valid UTF-8
ToValidUTF8(str) == IF str = KeyIDInvalidUTF8 THEN KeyIDReplaced ELSE str

\* a []byte member: base64 of the bytes, null for a nil slice
BytesMember(name, b) ==
    IF b = <<>> THEN Member(name, "null", "", <<>>)
    ELSE Member(name, "base64", "", b)

\* (es *EncryptedString) String(): json.Marshal with the struct's tags;
\* "nonce" is omitempty
String(es) ==
    <<Tok("{"),
      Member("key_id", "string", ToValidUTF8(es.KeyID), <<>>),
      Member("alg", "string", ToValidUTF8(es.Algorithm), <<>>),
      BytesMember("data", es.Data)>>
    \o (IF Len(es.Nonce) = 0 THEN <<>> ELSE <<BytesMember("nonce", es.Nonce)>>)
    \o <<Tok("}")>>

\* the struct field a member name selects; encoding/json matches the tags
\* without regard to case
FieldOf(name) ==
    CASE name \in {"key_id", "KEY_ID"} -> "KeyID"
      [] name \in {"alg", "ALG"} -> "Algorithm"
      [] name \in {"data", "DATA"} -> "Data"
      [] name \in {"nonce", "NONCE"} -> "Nonce"
      [] OTHER -> ""

\* the text of a JSON string whose content is base64
Base64Text(b) == IF b = <<>> THEN "" ELSE "<base64>"

\* one member decoded into the struct: [es, ok]
SetField(es, m) ==
    LET f == FieldOf(m.name) IN
    IF f = "" THEN [es |-> es, ok |-> TRUE]
    ELSE IF m.kind = "number" THEN [es |-> es, ok |-> FALSE]
    ELSE IF f \in {"KeyID", "Algorithm"}
        THEN [es |-> [es EXCEPT ![f] =
                         CASE m.kind = "null" -> @
                           [] m.kind = "string" -> m.text
                           [] OTHER -> Base64Text(m.bytes)],
              ok |-> TRUE]
    ELSE IF m.kind = "null" THEN [es |-> [es EXCEPT ![f] = <<>>], ok |-> TRUE]
    ELSE IF m.kind = "base64" THEN [es |-> [es EXCEPT ![f] = m.bytes], ok |-> TRUE]
    ELSE IF m.text = "" THEN [es |-> [es EXCEPT ![f] = <<>>], ok |-> TRUE]
    ELSE [es |-> es, ok |-> FALSE]

\* the members str[i..] decoded in turn, a later member overriding an earlier
RECURSIVE SetFields(_, _, _)
SetFields(es, str, i) ==
    IF i > Len(str) \/ str[i].tok # "member" THEN [es |-> es, ok |-> TRUE]
    ELSE LET one == SetField(es, str[i])
             rest == SetFields(one.es, str, i + 1)
         IN  [es |-> rest.es, ok |-> one.ok /\ rest.ok]

\* str without its trailing white space
RECURSIVE TrimRight(_)
TrimRight(str) ==
    IF Len(str) > 0 /\ str[Len(str)].tok = "ws" THEN TrimRight(Take(str, Len(str) - 1))
    ELSE str

\* the text is one JSON object
IsJSONObject(str) ==
    LET body == TrimRight(str) IN
    /\ Len(body) >= 2
    /\ body[1].tok = "{"
    /\ body[Len(body)].tok = "}"
    /\ \A i \in 2..(Len(body) - 1) : body[i].tok = "member"

ZeroEncryptedString == [KeyID |-> "", Algorithm |-> "", Data |-> <<>>, Nonce |-> <<>>]

\* json.Unmarshal([]byte(str), &es)
Unmarshal(str) ==
    IF ~IsJSONObject(str) THEN [es |-> ZeroEncryptedString, ok |-> FALSE]
    ELSE SetFields(ZeroEncryptedString, str, 2)

\* parsing that returns whatever was decoded
ParseEncryptedString_NoValidation(str) ==
    IF ~(Len(str) > 0 /\ str[1].tok = "{") THEN <<>>
    ELSE LET u == Unmarshal(str) IN
         IF ~u.ok THEN <<>> ELSE <<u.es>>

\* ParseEncryptedString(str): the envelope in a one-element tuple, or <<>>
\* for nil
ParseEncryptedString(str) ==
    IF ~(Len(str) > 0 /\ str[1].tok = "{") THEN <<>>
    ELSE LET u == Unmarshal(str) IN
         IF ~u.ok THEN <<>>
         ELSE IF ~IsValid(u.es) THEN <<>>
         ELSE <<u.es>>

\* ------------------------------------------------- VerifyEthereumSignature
EthSigSize == 65
EthVOffset == 27

ErrInvalidSignatureHex == "siwe: invalid signature hex"
ErrInvalidSignatureLength == "siwe: invalid signature length"

HexChars == {"0", "1", "4", "a", "A", "f"}

HexVal(ch) ==
    CASE ch = "0" -> 0 [] ch = "1" -> 1 [] ch = "4" -> 4
      [] ch \in {"a", "A"} -> 10 [] ch = "f" -> 15

\* removeHexPrefix(signature)
RemoveHexPrefix(signature) ==
    IF HasPrefix(signature, <<"0", "x">>) THEN Drop(signature, 2) ELSE signature

\* hex.DecodeString(s)
HexDecodeString(s) ==
    IF \E i \in 1..(2 * (Len(s) \div 2)) : s[i] \notin HexChars
        THEN [ok |-> FALSE, bytes |-> <<>>]
    ELSE IF Len(s) % 2 = 1 THEN [ok |-> FALSE, bytes |-> <<>>]
    ELSE [ok |-> TRUE,
          bytes |-> [i \in 1..(Len(s) \div 2) |->
                        16 * HexVal(s[2 * i - 1]) + HexVal(s[2 * i])]]

\* a stub that succeeds whatever the input
VerifyEthereumSignature_Unconditional(message, signature) ==
    [err |-> ErrNone, sigBytes |-> <<>>]

\* VerifyEthereumSignature(message, signature): the error returned and the
\* local sigBytes after the adjustment of V
VerifyEthereumSignature(message, signature) ==
    LET dec == HexDecodeString(RemoveHexPrefix(signature)) IN
    IF ~dec.ok THEN [err |-> ErrInvalidSignatureHex, sigBytes |-> <<>>]
    ELSE IF Len(dec.bytes) # EthSigSize
        THEN [err |-> ErrInvalidSignatureLength, sigBytes |-> <<>>]
    ELSE [err |-> ErrNone,
          sigBytes |-> IF dec.bytes[EthSigSize] < EthVOffset
                       THEN [dec.bytes EXCEPT ![EthSigSize] = @ + EthVOffset]
                       ELSE dec.bytes]

\* ------------------------------------------------------------------ state
VARIABLES
    now,         \* time.Now(), in ticks; never the zero time
    isolation,   \* isolation level of the transactions db.Transaction opens
    rows,        \* auth.nonces, committed: row id -> StoredNonce
    lock,        \* row id -> the caller whose uncommitted UPDATE holds the row, or 0
    pc,          \* caller -> position in the flow / in VerifyAndConsumeNonce
    call,        \* caller -> the request it carries (nonce, address, message)
    vres,        \* caller -> what VerifySIWS returned for the request
    stored,      \* caller -> storedNonce, as scanned by the SELECT
    nowRead,     \* caller -> the time.Now() of the expiration check
    result,      \* caller -> what VerifyAndConsumeNonce returned
    arrival,     \* caller -> what the table held for the nonce when the request arrived
    consumedBy,  \* row id -> the callers whose UPDATE of the row committed
    vin,         \* the verifier's input under construction
    vout,        \* the verifier's result for vin, or NotRun
    vnow,        \* the time.Now() that run of the verifier read, or 0
    faults,      \* number of fields of vin changed so far
    keys,        \* the configured map key id -> base key material
    active,      \* the key id new envelopes are written under
    envs,        \* the stored envelopes, each with the record and plaintext it was made for
    sample,      \* the envelope handed to the pure envelope functions
    last         \* the last envelope operation: its arguments and what it returned

storeVars == <<isolation, rows, lock, pc, call, vres, stored, nowRead, result,
               arrival, consumedBy>>

verifierVars == <<vin, vout, vnow, faults>>

envelopeVars == <<keys, active, envs, sample, last>>

vars == <<now, storeVars, verifierVars, envelopeVars>>

NoOp == [op |-> "none"]

NoSample == [KeyID |-> "", Algorithm |-> "", Data |-> <<>>, Nonce |-> <<>>]

KeyIDNames == <<"k1", "k2", "k3", "k4">>

EnvelopeIdle ==
    /\ keys = [k \in {KeyIDNames[1]} |-> "baseA"]
    /\ active = KeyIDNames[1]
    /\ envs = <<>>
    /\ sample = NoSample
    /\ last = NoOp

\* ------------------------------------------------------- verifier inputs
DomainOK == <<"a", ".", "c">>

UriOK == <<"h", ":", "/", "/", "h">>

UriBad == <<":", "h">>

BaseMsg(address) ==
    [Domain |-> DomainOK, Address |-> address, Version |-> "1", ChainID |-> "",
     Nonce |-> "abcdefgh", URI |-> <<>>, Resources |-> <<>>,
     IssuedAt |-> 0, NotBefore |-> 0, ExpirationTime |-> 0]

BaseParams == [ExpectedDomain |-> DomainOK, CheckTime |-> FALSE, TimeDuration |-> 0]

SignerAddresses == {"addrA", "addrB"}

\* one byte of a byte string changed
Flip(bytes, i) == [bytes EXCEPT ![i] = bytes[i] + 1]

BaseRaw == <<7, 7>>

RawMessages == {<<>>, BaseRaw, Flip(BaseRaw, 1), Flip(BaseRaw, 2)}

ValidSignatures ==
    {Ed25519Sign(Base58Decode(a), m) : a \in SignerAddresses, m \in RawMessages \ {<<>>}}

Signatures ==
    {<<>>} \cup ValidSignatures
           \cup {Flip(Ed25519Sign(Base58Decode("addrA"), BaseRaw), i) : i \in 1..2}

TimeValues == 0..MaxVerifyTime

FieldValues(f) ==
    CASE f = "Domain" ->
            {DomainOK, <<"A", ".", "c">>, <<"a", ".", "c", ".">>, <<"a", " ", "c">>, <<>>}
      [] f = "Address" -> {"addrA", "addrB", "short", "long", "0OIl"}
      [] f = "Version" -> {"1", "2"}
      [] f = "ChainID" -> {"", "mainnet", "bogus"}
      [] f = "Nonce" -> {"", "abcdefgh", "abcdefg"}
      [] f = "URI" -> {<<>>, UriOK, UriBad, <<"h", Ctl>>, <<"/", "%", "z">>}
      [] f = "Resources" -> {<<>>, <<UriOK>>, <<UriOK, UriBad>>, <<<<>>>>}
      [] f \in {"IssuedAt", "NotBefore", "ExpirationTime"} -> TimeValues

FieldNames ==
    {"Domain", "Address", "Version", "ChainID", "Nonce", "URI", "Resources",
     "IssuedAt", "NotBefore", "ExpirationTime"}

ExpectedDomains == {DomainOK, <<"A", ".", "c">>, <<"a", ".", "c", ".">>, <<>>}

Durations == {-1, 0, 1}

NotRun == [err |-> "not run", sigChecked |-> FALSE]

\* ------------------------------------------------- the verifier's actions
Building == vout = NotRun /\ faults < MaxFaults

SetRawMessage ==
    /\ Building
    /\ \E m \in RawMessages \ {vin.rawMessage} : vin' = [vin EXCEPT !.rawMessage = m]
    /\ faults' = faults + 1
    /\ UNCHANGED <<envelopeVars, now, storeVars, vout, vnow>>

SetSignature ==
    /\ Building
    /\ \E sg \in Signatures \ {vin.signature} : vin' = [vin EXCEPT !.signature = sg]
    /\ faults' = faults + 1
    /\ UNCHANGED <<envelopeVars, now, storeVars, vout, vnow>>

SetNilMsg ==
    /\ Building
    /\ vin.msg # NilMsg
    /\ vin' = [vin EXCEPT !.msg = NilMsg]
    /\ faults' = faults + 1
    /\ UNCHANGED <<envelopeVars, now, storeVars, vout, vnow>>

SetMsgField ==
    /\ Building
    /\ vin.msg # NilMsg
    /\ \E f \in FieldNames : \E v \in FieldValues(f) \ {vin.msg[1][f]} :
          vin' = [vin EXCEPT !.msg = <<[vin.msg[1] EXCEPT ![f] = v]>>]
    /\ faults' = faults + 1
    /\ UNCHANGED <<envelopeVars, now, storeVars, vout, vnow>>

SetExpectedDomain ==
    /\ Building
    /\ \E d \in ExpectedDomains \ {vin.params.ExpectedDomain} :
          vin' = [vin EXCEPT !.params.ExpectedDomain = d]
    /\ faults' = faults + 1
    /\ UNCHANGED <<envelopeVars, now, storeVars, vout, vnow>>

SetTimeParams ==
    /\ Building
    /\ \E ct \in BOOLEAN, d \in Durations :
          /\ <<ct, d>> # <<vin.params.CheckTime, vin.params.TimeDuration>>
          /\ vin' = [vin EXCEPT !.params.CheckTime = ct, !.params.TimeDuration = d]
    /\ faults' = faults + 1
    /\ UNCHANGED <<envelopeVars, now, storeVars, vout, vnow>>

Tick ==
    /\ now < MaxTime
    /\ now' = now + 1
    /\ UNCHANGED <<envelopeVars, storeVars, verifierVars>>

\* time passes before the verifier runs
TickV ==
    /\ vout = NotRun
    /\ now < MaxVerifyTime
    /\ now' = now + 1
    /\ UNCHANGED <<envelopeVars, storeVars, verifierVars>>

RunVerifySIWS ==
    /\ vout = NotRun
    /\ vout' = VerifySIWS(vin.rawMessage, vin.signature, vin.msg, vin.params, now)
    /\ vnow' = now
    /\ UNCHANGED <<envelopeVars, now, storeVars, vin, faults>>

StoreIdle ==
    /\ isolation = "ReadCommitted"
    /\ rows = <<>>
    /\ lock = <<>>
    /\ consumedBy = <<>>
    /\ pc = [c \in 1..NumCallers |-> "idle"]
    /\ call = [c \in 1..NumCallers |-> <<>>]
    /\ vres = [c \in 1..NumCallers |-> "not run"]
    /\ stored = [c \in 1..NumCallers |-> <<>>]
    /\ nowRead = [c \in 1..NumCallers |-> 0]
    /\ result = [c \in 1..NumCallers |-> "none"]
    /\ arrival = [c \in 1..NumCallers |-> "none"]

InitV ==
    /\ now = 1
    /\ StoreIdle
    /\ EnvelopeIdle
    /\ \E a \in SignerAddresses, ct \in BOOLEAN :
          vin = [rawMessage |-> BaseRaw,
                 signature |-> Ed25519Sign(Base58Decode(a), BaseRaw),
                 msg |-> <<BaseMsg(a)>>,
                 params |-> [BaseParams EXCEPT !.CheckTime = ct,
                                               !.TimeDuration = IF ct THEN 1 ELSE 0]]
    /\ vout = NotRun
    /\ vnow = 0
    /\ faults = 0

NextV ==
    \/ SetRawMessage
    \/ SetSignature
    \/ SetNilMsg
    \/ SetMsgField
    \/ SetExpectedDomain
    \/ SetTimeParams
    \/ TickV
    \/ RunVerifySIWS

SpecV == InitV /\ [][NextV]_vars

\* ------------------------------------------------------- the nonce store
Callers == 1..NumCallers

RowIDs == 1..Len(rows)

\* the nonces the issuer draws, in the order it draws them
NonceNames == <<"abcdefgh">>

\* a nonce value no challenge was ever issued with
ForgedNonce == "zzzzzzzz"

IsolationLevels == {"ReadCommitted", "Serializable"}

\* results of VerifyAndConsumeNonce
ResOK == "nil"
ResNotFound == "sql.ErrNoRows"
ResExpired == "nonce expired"
ResSerialization == "serialization failure"
ResStorage == "storage error"

\* a challenge is issued: one new row, unused, for one address, valid to the
\* end of the current tick
IssueNonce ==
    /\ Len(rows) < Len(NonceNames)
    /\ \E a \in SignerAddresses :
          rows' = Append(rows, [Nonce |-> NonceNames[Len(rows) + 1], Address |-> a,
                                ExpiresAt |-> now, Used |-> FALSE])
    /\ lock' = Append(lock, 0)
    /\ consumedBy' = Append(consumedBy, {})
    /\ UNCHANGED <<envelopeVars, now, isolation, pc, call, vres, stored, nowRead, result, arrival,
                   verifierVars>>

\* the request the flow receives: a message for (nonce, address), signed by
\* the key of signer, and the raw bytes that were signed
Request(nonce, address, signer, expiration) ==
    LET raw == <<Len(address), Len(nonce), expiration + 1>> IN
    [nonce |-> nonce, address |-> address,
     rawMessage |-> raw,
     signature |-> Ed25519Sign(Base58Decode(signer), raw),
     msg |-> <<[BaseMsg(address) EXCEPT !.Nonce = nonce,
                                        !.ExpirationTime = expiration]>>]

\* what the table holds for a nonce value
NonceState(n) ==
    IF \A r \in RowIDs : rows[r].Nonce # n THEN "absent"
    ELSE IF \E r \in RowIDs : rows[r].Nonce = n /\ rows[r].Used THEN "used"
    ELSE "unused"

\* the flow: VerifySIWS, then VerifyAndConsumeNonce when it returned nil
\* (callers are interchangeable: they arrive in the order of their numbers)
Submit(c) ==
    /\ pc[c] = "idle"
    /\ \A d \in Callers : d < c => pc[d] # "idle"
    /\ \E n \in {rows[r].Nonce : r \in RowIDs} \cup {ForgedNonce},
          a \in SignerAddresses, signer \in SignerAddresses, e \in 0..now :
          /\ (signer # a \/ n = ForgedNonce) => e = 0
          /\ LET rq == Request(n, a, signer, e)
                 v == VerifySIWS(rq.rawMessage, rq.signature, rq.msg, BaseParams, now)
             IN  /\ call' = [call EXCEPT ![c] = <<rq>>]
                 /\ vres' = [vres EXCEPT ![c] = v.err]
                 /\ pc' = [pc EXCEPT ![c] =
                              IF v.err = ErrNone THEN "select" ELSE "rejected"]
                 /\ arrival' = [arrival EXCEPT ![c] = NonceState(n)]
    /\ UNCHANGED <<envelopeVars, now, isolation, rows, lock, stored, nowRead, result, consumedBy,
                   verifierVars>>

\* the SELECT without its "used = false" condition
MatchingRows_IgnoreUsed(nonce, address) ==
    {r \in RowIDs : rows[r].Nonce = nonce /\ rows[r].Address = address}

\* the SELECT without its "address = $2" condition
MatchingRows_IgnoreAddress(nonce, address) ==
    {r \in RowIDs : rows[r].Nonce = nonce /\ rows[r].Used = FALSE}

\* SELECT ... WHERE nonce = $1 AND used = false AND address = $2
MatchingRows(nonce, address) ==
    {r \in RowIDs : rows[r].Nonce = nonce /\ rows[r].Used = FALSE
                    /\ rows[r].Address = address}

FirstRow(S) == CHOOSE r \in S : \A q \in S : r <= q

Return(c, res) ==
    /\ result' = [result EXCEPT ![c] = res]
    /\ pc' = [pc EXCEPT ![c] = "done"]

\* QueryRow(...).Scan(&storedNonce...)
Select(c) ==
    /\ pc[c] = "select"
    /\ LET found == MatchingRows(call[c][1].nonce, call[c][1].address) IN
          IF found = {}
          THEN /\ Return(c, ResNotFound)
               /\ UNCHANGED stored
          ELSE /\ stored' = [stored EXCEPT ![c] =
                                <<[ID |-> FirstRow(found)] @@ rows[FirstRow(found)]>>]
               /\ pc' = [pc EXCEPT ![c] = "check"]
               /\ UNCHANGED result
    /\ UNCHANGED <<envelopeVars, now, isolation, rows, lock, call, vres, nowRead, arrival, consumedBy,
                   verifierVars>>

\* the row marked used before the expiration check
CheckExpiration_MarksUsed(c) ==
    /\ pc[c] = "check"
    /\ nowRead' = [nowRead EXCEPT ![c] = now]
    /\ rows' = [rows EXCEPT ![stored[c][1].ID].Used = TRUE]
    /\ IF now > stored[c][1].ExpiresAt
       THEN Return(c, ResExpired)
       ELSE /\ pc' = [pc EXCEPT ![c] = "update"]
            /\ UNCHANGED result
    /\ UNCHANGED <<envelopeVars, now, isolation, lock, call, vres, stored, arrival, consumedBy,
                   verifierVars>>

\* if time.Now().After(storedNonce.ExpiresAt)
CheckExpiration(c) ==
    /\ pc[c] = "check"
    /\ nowRead' = [nowRead EXCEPT ![c] = now]
    /\ IF now > stored[c][1].ExpiresAt
       THEN Return(c, ResExpired)
       ELSE /\ pc' = [pc EXCEPT ![c] = "update"]
            /\ UNCHANGED result
    /\ UNCHANGED <<envelopeVars, now, isolation, rows, lock, call, vres, stored, arrival, consumedBy,
                   verifierVars>>

\* the UPDATE run on the connection instead of the transaction: it takes
\* effect at once
Update_OutsideTransaction(c) ==
    /\ pc[c] = "update"
    /\ lock[stored[c][1].ID] = 0
    /\ rows' = [rows EXCEPT ![stored[c][1].ID] =
                   [@ EXCEPT !.Used = TRUE, !.Address = call[c][1].address]]
    /\ lock' = [lock EXCEPT ![stored[c][1].ID] = c]
    /\ pc' = [pc EXCEPT ![c] = "commit"]
    /\ UNCHANGED <<envelopeVars, now, isolation, call, vres, stored, nowRead, result,
                   arrival, consumedBy, verifierVars>>

\* UPDATE auth.nonces SET used = true, address = $1 WHERE id = $2: the
\* statement waits for the row's lock; in a snapshot transaction it fails
\* when the row was changed by a transaction committed since the snapshot.
Update(c) ==
    /\ pc[c] = "update"
    /\ lock[stored[c][1].ID] = 0
    /\ IF isolation # "ReadCommitted" /\ rows[stored[c][1].ID].Used # stored[c][1].Used
       THEN /\ Return(c, ResSerialization)
            /\ UNCHANGED lock
       ELSE /\ lock' = [lock EXCEPT ![stored[c][1].ID] = c]
            /\ pc' = [pc EXCEPT ![c] = "commit"]
            /\ UNCHANGED result
    /\ UNCHANGED <<envelopeVars, now, isolation, rows, call, vres, stored, nowRead, arrival, consumedBy,
                   verifierVars>>

\* fn returned nil: db.Transaction commits, and the UPDATE takes effect
Commit(c) ==
    /\ pc[c] = "commit"
    /\ rows' = [rows EXCEPT ![stored[c][1].ID] =
                   [@ EXCEPT !.Used = TRUE, !.Address = call[c][1].address]]
    /\ lock' = [lock EXCEPT ![stored[c][1].ID] = 0]
    /\ consumedBy' = [consumedBy EXCEPT ![stored[c][1].ID] = @ \cup {c}]
    /\ Return(c, ResOK)
    /\ UNCHANGED <<envelopeVars, now, isolation, call, vres, stored, nowRead, arrival, verifierVars>>

\* a failed commit that leaves the UPDATE in place
StorageFailure_KeepsWrite(c) ==
    /\ pc[c] \in {"select", "update", "commit"}
    /\ rows' = [r \in RowIDs |->
                   IF lock[r] = c THEN [rows[r] EXCEPT !.Used = TRUE] ELSE rows[r]]
    /\ lock' = [r \in RowIDs |-> IF lock[r] = c THEN 0 ELSE lock[r]]
    /\ Return(c, ResStorage)
    /\ UNCHANGED <<envelopeVars, now, isolation, call, vres, stored, nowRead, arrival, consumedBy,
                   verifierVars>>

\* a statement or the commit fails in the storage layer (connection error,
\* deadline, abort): fn or db.Transaction returns the error, and the
\* transaction is rolled back
StorageFailure(c) ==
    /\ pc[c] \in {"select", "update", "commit"}
    /\ lock' = [r \in RowIDs |-> IF lock[r] = c THEN 0 ELSE lock[r]]
    /\ Return(c, ResStorage)
    /\ UNCHANGED <<envelopeVars, now, isolation, rows, call, vres, stored, nowRead, arrival, consumedBy,
                   verifierVars>>

VerifierIdle ==
    /\ vin = [rawMessage |-> <<>>, signature |-> <<>>, msg |-> NilMsg,
              params |-> BaseParams]
    /\ vout = NotRun
    /\ vnow = 0
    /\ faults = 0

Init ==
    /\ now = 1
    /\ isolation \in IsolationLevels
    /\ rows = <<>>
    /\ lock = <<>>
    /\ consumedBy = <<>>
    /\ pc = [c \in Callers |-> "idle"]
    /\ call = [c \in Callers |-> <<>>]
    /\ vres = [c \in Callers |-> "not run"]
    /\ stored = [c \in Callers |-> <<>>]
    /\ nowRead = [c \in Callers |-> 0]
    /\ result = [c \in Callers |-> "none"]
    /\ arrival = [c \in Callers |-> "none"]
    /\ VerifierIdle
    /\ EnvelopeIdle

Next ==
    \/ IssueNonce
    \/ Tick
    \/ \E c \in Callers : Submit(c)
    \/ \E c \in Callers : Select(c)
    \/ \E c \in Callers : CheckExpiration(c)
    \/ \E c \in Callers : Update(c)
    \/ \E c \in Callers : Commit(c)
    \/ \E c \in Callers : StorageFailure(c)

Spec == Init /\ [][Next]_vars

\* ------------------------------------------- the envelope store's actions
RecordIDs == {"r1", "r2"}

Plaintexts == {<<>>, <<5>>}

\* what rand.Reader can deliver
Nonces == {KeyBytes(1, NonceSize), KeyBytes(2, NonceSize)}

\* key material as first configured, and as rotations add it
ConfiguredKeys == {"baseA", "base128"}

RotationKeys == {"baseA", "baseB"}

\* key material a caller of Decrypt can supply
Materials == {"baseA", "baseB", "base128", "not base64!", ""}

\* the envelope slots of the store
Slots == <<"s1", "s2">>

\* a record is written: its secret is encrypted under the active key
Encrypt ==
    /\ Len(envs) < Len(Slots)
    /\ \E id \in RecordIDs, data \in Plaintexts, rnd \in Nonces :
          LET r == NewEncryptedString(id, data, active, MapGet(keys, active), rnd) IN
          /\ last' = [op |-> "NewEncryptedString", id |-> id, plaintext |-> data,
                      keyID |-> active, base |-> MapGet(keys, active), res |-> r]
          /\ envs' = IF r.err = ErrNone
                     THEN Append(envs, [id |-> id, plaintext |-> data,
                                        base |-> MapGet(keys, active),
                                        rotation |-> Cardinality(DOMAIN keys),
                                        es |-> r.es[1]])
                     ELSE envs
    /\ UNCHANGED <<now, storeVars, verifierVars, keys, active, sample>>

\* the key maps a caller can supply: some of the configured keys, or all of
\* them with the key id kid mapped to other material
KeyMaps(kid) ==
    {[k \in S |-> keys[k]] : S \in SUBSET DOMAIN keys}
    \cup {[k \in DOMAIN keys |-> IF k = kid THEN other ELSE keys[k]] :
             other \in Materials}

\* a stored envelope is decrypted, for some record id and with a key map
\* the caller supplies: some of the configured keys, the envelope's key id
\* possibly mapped to other material.  Decrypt changes nothing, so the
\* decryptions that follow one change of the store show them all
DecryptStored ==
    /\ last.op # "Decrypt"
    /\ \E i \in 1..Len(envs), id \in RecordIDs :
       \E km \in KeyMaps(envs[i].es.KeyID) :
          last' = [op |-> "Decrypt", made |-> envs[i], id |-> id, keys |-> km,
                   activeKeyID |-> active, res |-> Decrypt(envs[i].es, id, km)]
    /\ UNCHANGED <<now, storeVars, verifierVars, keys, active, envs, sample>>

\* a key rotation: a new key id with its material becomes the active key
Rotate ==
    /\ Cardinality(DOMAIN keys) <= MaxRotations
    /\ Cardinality(DOMAIN keys) < Len(KeyIDNames)
    /\ \E base \in RotationKeys :
          LET kid == KeyIDNames[Cardinality(DOMAIN keys) + 1] IN
          /\ keys' = [k \in DOMAIN keys \cup {kid} |->
                         IF k = kid THEN base ELSE keys[k]]
          /\ active' = kid
          /\ last' = [op |-> "Rotate", keyID |-> kid]
    /\ UNCHANGED <<now, storeVars, verifierVars, envs, sample>>

\* a record is read: an envelope under an older key is decrypted and
\* re-created under the active key
ReEncrypt ==
    /\ \E i \in 1..Len(envs), rnd \in Nonces :
          /\ ShouldReEncrypt(envs[i].es, active)
          /\ LET d == Decrypt(envs[i].es, envs[i].id, keys)
                 r == IF d.err = ErrNone
                      THEN NewEncryptedString(envs[i].id, d.out[1], active,
                                              MapGet(keys, active), rnd)
                      ELSE [es |-> <<>>, err |-> d.err]
             IN  /\ last' = [op |-> "ReEncrypt", made |-> envs[i], read |-> d,
                             keyID |-> active, res |-> r]
                 /\ envs' = IF r.err = ErrNone
                            THEN [envs EXCEPT ![i].es = r.es[1],
                                              ![i].base = MapGet(keys, active),
                                              ![i].rotation = Cardinality(DOMAIN keys)]
                            ELSE envs
    /\ UNCHANGED <<now, storeVars, verifierVars, keys, active, sample>>

InitE ==
    /\ now = 1
    /\ StoreIdle
    /\ VerifierIdle
    /\ keys \in {[k \in {KeyIDNames[1]} |-> base] : base \in ConfiguredKeys}
    /\ active = KeyIDNames[1]
    /\ envs = <<>>
    /\ sample = NoSample
    /\ last = NoOp

NextE ==
    \/ Encrypt
    \/ DecryptStored
    \/ Rotate
    \/ ReEncrypt

SpecE == InitE /\ [][NextE]_vars

\* -------------------------------------- the pure envelope functions' runs
KeyIDValues == {"", "k1", "k2", KeyIDInvalidUTF8}

\* envelopes as a caller can hold them: made by NewEncryptedString, or any
\* combination of field values
SampleEnvelopes ==
    {NewEncryptedString("r1", data, "k1", "baseA", rnd).es[1] :
        data \in Plaintexts, rnd \in Nonces}
    \cup [KeyID : KeyIDValues, Algorithm : {AlgAESGCMHKDF, "aes-gcm"},
          Data : {<<>>, Garbage}, Nonce : {<<>>, <<1>>, KeyBytes(1, NonceSize)}]

\* what can become of the transport string between String and Parse
Damages ==
    {"none", "empty", "legacy", "leading space", "trailing space", "truncated",
     "trailing text", "only braces", "unknown member", "number member",
     "upper-case member", "null data", "empty data", "text data"}

\* str with the member m added at the end of the object
WithMember(str, m) == Take(str, Len(str) - 1) \o <<m, Tok("}")>>

Damaged(str, how) ==
    CASE how = "none" -> str
      [] how = "empty" -> <<>>
      [] how = "legacy" -> <<Tok("text")>>
      [] how = "leading space" -> <<Tok("ws")>> \o str
      [] how = "trailing space" -> str \o <<Tok("ws")>>
      [] how = "truncated" -> Take(str, Len(str) - 1)
      [] how = "trailing text" -> str \o <<Tok("text")>>
      [] how = "only braces" -> <<Tok("{"), Tok("}")>>
      [] how = "unknown member" -> WithMember(str, Member("kid", "string", "k2", <<>>))
      [] how = "number member" -> WithMember(str, Member("key_id", "number", "", <<>>))
      [] how = "upper-case member" ->
            WithMember(str, Member("KEY_ID", "string", "k2", <<>>))
      [] how = "null data" -> WithMember(str, Member("data", "null", "", <<>>))
      [] how = "empty data" -> WithMember(str, Member("data", "string", "", <<>>))
      [] how = "text data" -> WithMember(str, Member("data", "string", "not base64!", <<>>))

RunParse ==
    /\ last = NoOp
    /\ \E how \in Damages :
          LET str == Damaged(String(sample), how) IN
          last' = [op |-> "Parse", how |-> how, str |-> str,
                   res |-> ParseEncryptedString(str)]
    /\ UNCHANGED <<now, storeVars, verifierVars, keys, active, envs, sample>>

RunShouldReEncrypt ==
    /\ last = NoOp
    /\ \E kid \in KeyIDValues :
          last' = [op |-> "ShouldReEncrypt", keyID |-> kid,
                   res |-> ShouldReEncrypt(sample, kid)]
    /\ UNCHANGED <<now, storeVars, verifierVars, keys, active, envs, sample>>

\* signature strings: an optional prefix and n times one character
EthPrefixes == {<<>>, <<"0", "x">>, <<"0", "X">>, <<"0", "x", "0", "x">>}

EthBodies ==
    {[i \in 1..n |-> ch] :
        n \in {0, 2 * EthSigSize - 2, 2 * EthSigSize - 1, 2 * EthSigSize,
               2 * EthSigSize + 2},
        ch \in {"0", "4", "f", "g"}}

EthSignatures == {p \o b : p \in EthPrefixes, b \in EthBodies}

EthMessages == {"", "hello"}

RunVerifyEthereumSignature ==
    /\ last = NoOp
    /\ \E message \in EthMessages, signature \in EthSignatures :
          last' = [op |-> "VerifyEthereumSignature", message |-> message,
                   signature |-> signature,
                   res |-> VerifyEthereumSignature(message, signature)]
    /\ UNCHANGED <<now, storeVars, verifierVars, keys, active, envs, sample>>

InitP ==
    /\ now = 1
    /\ StoreIdle
    /\ VerifierIdle
    /\ keys = [k \in {KeyIDNames[1]} |-> "baseA"]
    /\ active = KeyIDNames[1]
    /\ envs = <<>>
    /\ sample \in SampleEnvelopes
    /\ last = NoOp

NextP ==
    \/ RunParse
    \/ RunShouldReEncrypt
    \/ RunVerifyEthereumSignature

SpecP == InitP /\ [][NextP]_vars

\* ---------------------------------------------- properties: nonce store
Req(c) == call[c][1]

Called(c) == call[c] # <<>> /\ vres[c] = ErrNone

\* the callers that asked, with the row's own address, for row r while it
\* was unused
Racers(r) ==
    {c \in Callers : /\ Called(c)
                     /\ Req(c).nonce = rows[r].Nonce
                     /\ Req(c).address = rows[r].Address
                     /\ arrival[c] = "unused"}

\* C1: of N >= 2 calls of VerifyAndConsumeNonce for one issued, unexpired
\* row, all with the row's nonce and address, exactly one returns success
\* and every other one fails, whatever the interleaving of their SELECT and
\* UPDATE steps.  Read in the claim's favour: injected storage failures are
\* left aside, and the write conflict a snapshot transaction reports counts
\* as the failure the claim names.
C1_ExactlyOneSuccess ==
    \A r \in RowIDs :
        ( /\ Cardinality(Racers(r)) >= 2
          /\ \A c \in Racers(r) : pc[c] = "done" /\ result[c] # ResStorage
          /\ now <= rows[r].ExpiresAt )
        => /\ Cardinality({c \in Racers(r) : result[c] = ResOK}) = 1
           /\ \A c \in Racers(r) : result[c] \in {ResOK, ResNotFound, ResSerialization}

\* the replay d of a request c that was accepted: the identical request,
\* arriving after the nonce was consumed
Replay(c, d) ==
    /\ c # d
    /\ Called(c) /\ result[c] = ResOK
    /\ call[d] = call[c]
    /\ arrival[d] = "used"

C3_UsedMonotonic ==
    [][ /\ \A r \in RowIDs :
              /\ rows[r].Used => rows'[r].Used
              /\ (~rows[r].Used /\ rows'[r].Used) =>
                    \E c \in Callers : /\ pc[c] = "commit"
                                       /\ stored[c][1].ID = r
                                       /\ pc'[c] = "done"
                                       /\ result'[c] = ResOK
        /\ \A r \in (1..Len(rows')) \ RowIDs : ~rows'[r].Used ]_vars

C3_Witness == \E r \in RowIDs : rows[r].Used /\ consumedBy[r] # {}

\* C4: when a call returns success, at the step its write takes effect the
\* stored row with that nonce is unused, carries the supplied address, and
\* its expiresAt is not earlier than the time the call read.
C4_SuccessOnlyOnFreshRow ==
    [][ \A c \in Callers :
            (pc[c] = "commit" /\ result'[c] = ResOK) =>
                /\ rows[stored[c][1].ID].Nonce = Req(c).nonce
                /\ rows[stored[c][1].ID].Used = FALSE
                /\ rows[stored[c][1].ID].Address = Req(c).address
                /\ rows[stored[c][1].ID].ExpiresAt >= nowRead[c] ]_vars

\* C5: a call that finds its row (unused, right address) and reads the clock
\* after the row's expiresAt returns the expired error, and only such a call
\* does; it never writes the row: the row is not locked or consumed by it,
\* and is still unused unless another call's commit consumed it.
C5_ExpiredLeavesUnused ==
    \A c \in Callers :
        (stored[c] # <<>> /\ nowRead[c] # 0) =>
            /\ nowRead[c] > stored[c][1].ExpiresAt =>
                  /\ pc[c] = "done" /\ result[c] = ResExpired
                  /\ c \notin consumedBy[stored[c][1].ID]
                  /\ lock[stored[c][1].ID] # c
                  /\ consumedBy[stored[c][1].ID] = {} => ~rows[stored[c][1].ID].Used
            /\ result[c] = ResExpired => nowRead[c] > stored[c][1].ExpiresAt

C5_Witness ==
    \E c \in Callers :
        /\ result[c] = ResExpired
        /\ ~rows[stored[c][1].ID].Used
        /\ Req(c).address = rows[stored[c][1].ID].Address

\* C6: the SELECT of a call whose nonce is in the table, unused and
\* unexpired, under another address returns the not-found error and changes
\* nothing; and no step changes the address (or nonce) of a row.
C6_MismatchedAddress ==
    [][ /\ \A c \in Callers :
              ( /\ pc[c] = "select" /\ pc'[c] # "select" /\ result'[c] # ResStorage
                /\ \E r \in RowIDs : /\ rows[r].Nonce = Req(c).nonce
                                     /\ ~rows[r].Used
                                     /\ now <= rows[r].ExpiresAt
                                     /\ rows[r].Address # Req(c).address )
              => /\ pc'[c] = "done" /\ result'[c] = ResNotFound
                 /\ rows' = rows /\ lock' = lock
        /\ \A r \in RowIDs : /\ rows'[r].Address = rows[r].Address
                             /\ rows'[r].Nonce = rows[r].Nonce ]_vars

\* the mismatched call failed and the rightful address consumed afterwards
C6_Witness ==
    \E c, d \in Callers, r \in RowIDs :
        /\ Called(c) /\ Called(d)
        /\ Req(c).nonce = rows[r].Nonce /\ Req(d).nonce = rows[r].Nonce
        /\ Req(c).address # rows[r].Address
        /\ arrival[c] = "unused"
        /\ result[c] = ResNotFound
        /\ c < d /\ result[d] = ResOK

\* the call of caller c returns an error in this step
ReturnsError(c) == result[c] = "none" /\ result'[c] \notin {"none", ResOK}

\* C18: a VerifyAndConsumeNonce call that returns an error (not found or
\* used, address mismatch, expired, failure of the read, of the update or of
\* the transaction) leaves the nonce table as it was, under any interleaving:
\* no step of such a call changes a row, so a row changes only in the step
\* by which a call returns success.
C18_ErrorLeavesTable ==
    [][/\ \A r \in RowIDs :
             rows'[r] # rows[r] =>
                \E c \in Callers : /\ result[c] = "none" /\ result'[c] = ResOK
                                   /\ stored[c][1].ID = r
       /\ \A c \in Callers : ReturnsError(c) => \A r \in RowIDs : rows'[r] = rows[r]
       /\ \A c \in Callers, r \in RowIDs :
             (result'[c] \notin {"none", ResOK}) => c \notin consumedBy'[r]]_vars

\* a call fails in the storage layer after its UPDATE was issued, and the
\* row is still unused
C18_Witness ==
    \E c \in Callers :
        /\ result[c] = ResStorage
        /\ nowRead[c] # 0
        /\ ~rows[stored[c][1].ID].Used
        /\ \A d \in Callers \ {c} : pc[d] = "idle"

\* ------------------------------------------------- properties: VerifySIWS
Ran == vout # NotRun

HasMsg == vin.msg # NilMsg

VMsg == vin.msg[1]

VPubKey == Base58Decode(VMsg.Address)

\* check k of the verifier's list, read on its own: TRUE iff vin, at the
\* time the verifier read, violates it
Violates(k) ==
    CASE k = 1 -> vin.rawMessage = <<>>
      [] k = 2 -> vin.signature = <<>>
      [] k = 3 -> ~HasMsg
      [] k = 4 -> vin.params.ExpectedDomain = <<>>
      [] k = 5 -> HasMsg /\ ~IsValidDomain(VMsg.Domain)
      [] k = 6 -> HasMsg /\ VMsg.Domain # vin.params.ExpectedDomain
      [] k = 7 -> HasMsg /\ Len(VPubKey) # PubKeySize
      [] k = 8 -> HasMsg /\ VMsg.Version # "1"
      [] k = 9 -> HasMsg /\ VMsg.ChainID # "" /\ VMsg.ChainID \notin SolanaNetworks
      [] k = 10 -> HasMsg /\ VMsg.Nonce # "" /\ Len(VMsg.Nonce) < MinNonceLen
      [] k = 11 -> HasMsg /\ VMsg.URI # <<>> /\ ~UrlParseOK(VMsg.URI)
      [] k = 12 -> HasMsg /\ \E i \in 1..Len(VMsg.Resources) :
                                 ~UrlParseOK(VMsg.Resources[i])
      [] k = 13 -> HasMsg /\ ~Ed25519Verify(VPubKey, vin.rawMessage, vin.signature)
      [] k = 14 -> HasMsg /\ VMsg.IssuedAt # 0 /\ vnow < VMsg.IssuedAt
      [] k = 15 -> /\ HasMsg /\ VMsg.IssuedAt # 0
                   /\ vin.params.CheckTime /\ vin.params.TimeDuration > 0
                   /\ vnow > VMsg.IssuedAt + vin.params.TimeDuration
      [] k = 16 -> HasMsg /\ VMsg.NotBefore # 0 /\ vnow < VMsg.NotBefore
      [] k = 17 -> HasMsg /\ VMsg.ExpirationTime # 0 /\ vnow > VMsg.ExpirationTime

CheckErrors ==
    <<ErrEmptyRawMessage, ErrEmptySignature, ErrNilMessage, ErrMissingDomain,
      ErrInvalidDomainFormat, ErrDomainMismatch, ErrInvalidPubKeySize,
      ErrInvalidVersion, ErrInvalidChainID, ErrNonceTooShort, ErrInvalidURI,
      ErrInvalidResourceURI, ErrSignatureVerification, ErrFutureMessage,
      ErrMessageExpired, ErrNotYetValid, ErrMessageExpired>>

Violated == {k \in 1..Len(CheckErrors) : Violates(k)}

\* the least violated check from k on, or 0
RECURSIVE FirstFrom(_)
FirstFrom(k) ==
    IF k > Len(CheckErrors) THEN 0 ELSE IF Violates(k) THEN k ELSE FirstFrom(k + 1)

FirstViolated == FirstFrom(1)

\* C7: the verifier returns the error of the earliest violated check of the
\* fixed order (and nil when no check is violated), also when the input
\* violates several checks.
C7_FirstFailingCheck ==
    Ran => LET first == FirstViolated IN
           IF first = 0 THEN vout.err = ErrNone ELSE vout.err = CheckErrors[first]

C7_Witness ==
    /\ Ran
    /\ Cardinality(Violated) >= 2
    /\ FirstViolated >= 8
    /\ vout.err = CheckErrors[FirstViolated]
    /\ vout.err # ErrSignatureVerification

\* no check but (possibly) the signature check is violated
WellFormed == \A k \in 1..Len(CheckErrors) : k # 13 => ~Violates(k)

\* C8: for a well-formed input the verifier returns nil when the signature
\* is the signature of the raw message bytes under the address key, and the
\* signature error when signature or raw message differ from the signed
\* pair; it never returns nil for a signature that does not verify over the
\* raw bytes.
C8_SignatureDecides ==
    Ran =>
        /\ WellFormed =>
              IF vin.signature = Ed25519Sign(VPubKey, vin.rawMessage)
              THEN vout.err = ErrNone
              ELSE vout.err = ErrSignatureVerification
        /\ vout.err = ErrNone =>
              /\ HasMsg /\ vout.sigChecked
              /\ Ed25519Verify(VPubKey, vin.rawMessage, vin.signature)

\* the signature is the right one with one byte flipped
C8_Witness ==
    /\ Ran /\ WellFormed
    /\ vout.err = ErrSignatureVerification
    /\ \E i \in 1..Len(vin.signature) :
          Flip(Ed25519Sign(VPubKey, vin.rawMessage), i) = vin.signature

\* the checks before the domain comparison pass
DomainReached == FirstViolated = 0 \/ FirstViolated > 5

\* C9 as stated (for a call with non-empty inputs and expected domain): a
\* message whose domain differs from the expected one yields DomainMismatch.
C9_MismatchAlwaysReported ==
    (Ran /\ FirstViolated \notin 1..4 /\ VMsg.Domain # vin.params.ExpectedDomain)
        => vout.err = ErrDomainMismatch

\* C9, amended: a message whose domain differs in any character from the
\* expected one is never accepted and never reaches the signature check;
\* the error is DomainMismatch when the earlier checks pass, and the error
\* of the earliest failing earlier check otherwise.
C9_MismatchNeverAccepted ==
    (Ran /\ HasMsg /\ VMsg.Domain # vin.params.ExpectedDomain) =>
        /\ vout.err # ErrNone
        /\ ~vout.sigChecked
        /\ IF DomainReached THEN vout.err = ErrDomainMismatch
           ELSE vout.err \in {ErrEmptyRawMessage, ErrEmptySignature, ErrMissingDomain,
                              ErrInvalidDomainFormat}

\* the domains differ in case only, or by a trailing dot only
C9_Witness ==
    /\ Ran /\ HasMsg
    /\ vout.err = ErrDomainMismatch
    /\ \/ /\ VMsg.Domain # vin.params.ExpectedDomain
          /\ DomainMatches_FoldCase(VMsg.Domain, vin.params.ExpectedDomain)
       \/ VMsg.Domain = vin.params.ExpectedDomain \o <<".">>

\* the checks before the public key check pass
KeyCheckReached == FirstViolated = 0 \/ FirstViolated > 6

\* C10 as stated (for a call with non-empty inputs and expected domain): an
\* address that does not decode to exactly PubKeySize bytes yields
\* InvalidPublicKeySize.
C10_BadKeyAlwaysReported ==
    (Ran /\ FirstViolated \notin 1..4 /\ Len(VPubKey) # PubKeySize)
        => vout.err = ErrInvalidPubKeySize

\* C10, amended: an address that does not decode to exactly PubKeySize
\* bytes is never accepted and the signature check is never reached for it;
\* the error is InvalidPublicKeySize when the earlier checks (inputs,
\* domain) pass, and the error of the earliest failing earlier check
\* otherwise.
C10_BadKeyNeverVerified ==
    (Ran /\ HasMsg /\ Len(VPubKey) # PubKeySize) =>
        /\ vout.err # ErrNone
        /\ ~vout.sigChecked
        /\ IF KeyCheckReached THEN vout.err = ErrInvalidPubKeySize
           ELSE vout.err = CheckErrors[FirstViolated] /\ FirstViolated < 7

C10_Witness ==
    /\ Ran /\ HasMsg
    /\ Len(VPubKey) > PubKeySize
    /\ 13 \in Violated
    /\ vout.err = ErrInvalidPubKeySize

\* the run passed the signature check
PastSignature == Ran /\ vout.sigChecked /\ vout.err # ErrSignatureVerification

FromFuture == VMsg.IssuedAt # 0 /\ vnow < VMsg.IssuedAt

AgeChecked == VMsg.IssuedAt # 0 /\ vin.params.CheckTime /\ vin.params.TimeDuration > 0

TooOld == AgeChecked /\ vnow > VMsg.IssuedAt + vin.params.TimeDuration

TooEarly == VMsg.NotBefore # 0 /\ vnow < VMsg.NotBefore

PastExpiration == VMsg.ExpirationTime # 0 /\ vnow > VMsg.ExpirationTime

\* C11: for a message that passes the signature check the result is
\* FutureMessage when now is before a set issuedAt; else MessageExpired when
\* checkTime, timeDuration > 0 and now is after issuedAt + timeDuration; else
\* NotYetValid when now is before a set notBefore; else MessageExpired when
\* now is after a set expirationTime; else success.  The bounds are
\* inclusive, unset fields are skipped, and the issuance age is checked only
\* with checkTime and timeDuration > 0.
C11_TimeValidation ==
    PastSignature =>
        /\ vout.err = ErrFutureMessage <=> FromFuture
        /\ vout.err = ErrNotYetValid <=> ~FromFuture /\ ~TooOld /\ TooEarly
        /\ vout.err = ErrMessageExpired <=>
               ~FromFuture /\ (TooOld \/ (~TooEarly /\ PastExpiration))
        /\ vout.err = ErrNone <=>
               /\ VMsg.IssuedAt = 0 \/ VMsg.IssuedAt <= vnow
               /\ ~AgeChecked \/ vnow <= VMsg.IssuedAt + vin.params.TimeDuration
               /\ VMsg.NotBefore = 0 \/ VMsg.NotBefore <= vnow
               /\ VMsg.ExpirationTime = 0 \/ vnow <= VMsg.ExpirationTime
        /\ (~vin.params.CheckTime \/ vin.params.TimeDuration <= 0) =>
               (vout.err = ErrMessageExpired => PastExpiration)

\* accepted on the bounds: now equal to issuedAt + timeDuration and to
\* expirationTime
C11_Witness ==
    /\ PastSignature /\ vout.err = ErrNone
    /\ AgeChecked /\ vnow = VMsg.IssuedAt + vin.params.TimeDuration
    /\ vnow = VMsg.ExpirationTime

\* ------------------------------------------- properties: the envelope
Decrypted == last.op = "Decrypt"

\* the supplied map holds, for the envelope's key id, the material the
\* envelope was made with
SameBaseKey == MapGet(last.keys, last.made.es.KeyID) = last.made.base

\* a valid 256-bit base key
ValidBaseKey(base) ==
    Base64URLDecode(base).ok /\ Len(Base64URLDecode(base).bytes) = SymKeySize

\* C12: for every record id, key id, valid 256-bit base key and plaintext,
\* the empty one included, NewEncryptedString succeeds and Decrypt of the
\* returned envelope with the same record id and the same base key for the
\* key id returns exactly the plaintext and no error.
C12_RoundTrip ==
    /\ (last.op = "NewEncryptedString" /\ ValidBaseKey(last.base)) =>
          /\ last.res.err = ErrNone
          /\ Decrypt(last.res.es[1], last.id, [k \in {last.keyID} |-> last.base])
                = DecryptResult(<<last.plaintext>>, ErrNone, TRUE, TRUE)
    /\ (Decrypted /\ last.id = last.made.id /\ SameBaseKey) =>
          last.res.err = ErrNone /\ last.res.out = <<last.made.plaintext>>

\* the empty plaintext comes back from a map holding only the envelope's key
C12_Witness ==
    /\ Decrypted /\ last.id = last.made.id /\ SameBaseKey
    /\ DOMAIN last.keys = {last.made.es.KeyID}
    /\ last.made.plaintext = <<>>
    /\ last.res.out = <<<<>>>>

\* C13: an envelope made for record r1 never decrypts under another record
\* id, with the same key map: Decrypt fails with the authentication error
\* and returns no plaintext.
C13_BoundToRecord ==
    (Decrypted /\ last.id # last.made.id /\ SameBaseKey) =>
        last.res.out = <<>> /\ last.res.err = ErrAuthFailed

C13_Witness ==
    /\ Decrypted /\ last.id # last.made.id /\ SameBaseKey
    /\ last.res.opened /\ last.res.err = ErrAuthFailed

\* C16: when the supplied map has no key for the envelope's key id (or maps
\* it to the empty string) Decrypt fails with the unknown-key error, returns
\* no plaintext and attempts neither the key derivation nor the AEAD open.
C16_UnknownKeyID ==
    (Decrypted /\ MapGet(last.keys, last.made.es.KeyID) = "") =>
        last.res = DecryptResult(<<>>, ErrUnknownKey, FALSE, FALSE)

\* the map holds another key, not the envelope's
C16_Witness ==
    /\ Decrypted
    /\ last.keys # <<>>
    /\ last.made.es.KeyID \notin DOMAIN last.keys
    /\ last.res.err = ErrUnknownKey

\* the number of keys configured so far
Rotations == Cardinality(DOMAIN keys)

\* C19: across key rotations that only add key ids, every stored envelope
\* decrypts to its original plaintext with its record id; for one made
\* before the last rotation ShouldReEncrypt(active) is true; re-creating it
\* under the active key succeeds, and the new envelope decrypts to the same
\* plaintext with ShouldReEncrypt(active) false.
C19_Rotation ==
    /\ \A i \in 1..Len(envs) :
          /\ Decrypt(envs[i].es, envs[i].id, keys).err = ErrNone
          /\ Decrypt(envs[i].es, envs[i].id, keys).out = <<envs[i].plaintext>>
          /\ ShouldReEncrypt(envs[i].es, active) <=> envs[i].rotation < Rotations
    /\ last.op = "ReEncrypt" =>
          /\ last.read.err = ErrNone /\ last.read.out = <<last.made.plaintext>>
          /\ last.res.err = ErrNone
          /\ ~ShouldReEncrypt(last.res.es[1], active)
          /\ Decrypt(last.res.es[1], last.made.id, keys).out = <<last.made.plaintext>>

\* an envelope made under the first key and re-created after a rotation to
\* other material, next to one still under the first key
C19_Witness ==
    /\ last.op = "ReEncrypt"
    /\ last.made.rotation < Rotations
    /\ last.made.base # MapGet(keys, active)
    /\ \E i \in 1..Len(envs) : envs[i].rotation < Rotations
    /\ \E i \in 1..Len(envs) : envs[i].rotation = Rotations

\* ------------------------------------- properties: the pure functions
\* C15: ShouldReEncrypt(currentKeyID) is true iff the envelope's key id
\* differs from currentKeyID.
C15_ShouldReEncrypt ==
    last.op = "ShouldReEncrypt" => (last.res <=> sample.KeyID # last.keyID)

C15_Witness ==
    /\ last.op = "ShouldReEncrypt"
    /\ sample.KeyID = last.keyID /\ sample.KeyID # "" /\ IsValid(sample)
    /\ last.res = FALSE

Parsed == last.op = "Parse"

\* the damages after which the string is no envelope
Unparseable ==
    {"empty", "legacy", "leading space", "truncated", "trailing text", "only braces",
     "number member", "null data", "empty data", "text data"}

\* parsing never yields a partially valid envelope
ParseAllOrNothing ==
    Parsed =>
        /\ last.res # <<>> => IsValid(last.res[1])
        /\ last.how \in Unparseable => last.res = <<>>
        /\ (last.how \in {"none", "trailing space", "unknown member"}
               /\ ~IsValid(sample)) => last.res = <<>>
        /\ (last.str = <<>> \/ last.str[1].tok # "{") => last.res = <<>>

\* C17 as stated: the round trip for every envelope satisfying the validity
\* invariant, and nil for everything that is no valid envelope.
C17_RoundTripEveryValid ==
    /\ ParseAllOrNothing
    /\ (Parsed /\ last.how = "none" /\ IsValid(sample)) => last.res = <<sample>>

\* C17, amended: the round trip for every valid envelope whose key id is
\* valid UTF-8 (json.Marshal writes U+FFFD for every other byte), and nil
\* for everything that is no valid envelope.
C17_RoundTripValidUTF8 ==
    /\ ParseAllOrNothing
    /\ (Parsed /\ last.how = "none" /\ IsValid(sample)) =>
          /\ last.res # <<>>
          /\ [last.res[1] EXCEPT !.KeyID = sample.KeyID] = sample
          /\ last.res[1].KeyID = ToValidUTF8(sample.KeyID)
          /\ sample.KeyID # KeyIDInvalidUTF8 => last.res = <<sample>>

\* an envelope made by NewEncryptedString comes back from its string
C17_Witness ==
    /\ Parsed /\ last.how = "none"
    /\ sample.Data # Garbage /\ IsValid(sample)
    /\ last.res = <<sample>>

EthVerified == last.op = "VerifyEthereumSignature"

\* C20 as stated: VerifyEthereumSignature returns no error, whatever the
\* message and the signature string.
C20_AlwaysSuccess == EthVerified => last.res.err = ErrNone

\* C20, amended: VerifyEthereumSignature returns no error exactly when the
\* signature, one leading "0x" removed, is the hex of 65 bytes, whatever the
\* message and without regard to any address; otherwise it returns the hex
\* or the length error.
C20_SuccessOnWellFormed ==
    EthVerified =>
        LET sig == last.signature
            body == IF Len(sig) >= 2 /\ sig[1] = "0" /\ sig[2] = "x"
                    THEN SubSeq(sig, 3, Len(sig)) ELSE sig
            isHex == \A i \in 1..Len(body) : body[i] \in HexChars
        IN  /\ last.res.err = ErrNone <=> isHex /\ Len(body) = 2 * EthSigSize
            /\ last.res.err = ErrInvalidSignatureLength <=>
                  isHex /\ Len(body) % 2 = 0 /\ Len(body) # 2 * EthSigSize
            /\ last.res.err = ErrInvalidSignatureHex <=>
                  ~isHex \/ Len(body) % 2 = 1

\* 130 hex characters after "0x" are accepted
C20_Witness ==
    /\ EthVerified
    /\ Len(last.signature) = 2 * EthSigSize + 2
    /\ last.res.err = ErrNone
    /\ last.res.sigBytes[EthSigSize] = EthVOffset

====
